---- MODULE Spec2Model ----
(***************************************************************************)
(* A model of utils/generate_test_data.py: the generator of synthetic      *)
(* case events (generate_case_id, generate_metadata, create_event,         *)
(* generate_case_events), the two thread pools of main, the three output   *)
(* branches of main (file, sample print, dispatch) and post_event.         *)
(*                                                                         *)
(* Conventions of the model                                                *)
(*  - a Python str that the program builds character by character (a case  *)
(*    id) is the sequence of its code points, so that joining and sorting  *)
(*    are computed; the fixed strings of the program are TLA+ strings;     *)
(*  - a datetime is a record [min, sec, micro]: whole minutes since an     *)
(*    epoch, the seconds of the minute, the microseconds of the second;    *)
(*  - a metadata value is tagged with its Python type: <<"str", s>>,       *)
(*    <<"int", n>> or <<"bool", b>>; a metadata dict is the sequence of    *)
(*    its <<key, value>> items in insertion order;                         *)
(*  - every random draw is an input of the action that makes it: the       *)
(*    action holds the code's range, the specification the sample the      *)
(*    draws are enumerated from.                                           *)
(***************************************************************************)
EXTENDS Integers, Sequences, FiniteSets, TLC

VARIABLES
    args,             \* main: the parsed command line [dry_run, output]
    NUM_CASES,        \* module global NUM_CASES
    EVENTS_PER_CASE,  \* module global EVENTS_PER_CASE
    pc,               \* main: its position
    gen,              \* generation pool: per ordinal, the task and its locals
    completed,        \* generation pool: the ordinals in the order they finished
    case_events,      \* main: list(executor.map(generate_case_events, ...))
    all_events,       \* main: the aggregate list
    case_ids,         \* main: the set of case ids seen
    log,              \* the warnings and summaries main has logged
    file,             \* the output file: <<>> while absent, else <<its JSON text>>
    stdout,           \* what main printed with print(): a sequence of texts
    post,             \* dispatch pool: per event index, the post_event call
    http,             \* the endpoint: per event index, the POSTs received
    results           \* main: list(executor.map(post_event, all_events))

vars == <<args, NUM_CASES, EVENTS_PER_CASE, pc, gen, completed, case_events, all_events, case_ids, log, file, stdout, post, http, results>>

(***************************************************************************)
(* Bounds of the model.                                                    *)
(***************************************************************************)
MaxCases == 2        \* Spec: NUM_CASES ranges over 1..MaxCases
MaxPairs == 2        \* Spec: EVENTS_PER_CASE ranges over 1..MaxPairs
CasePairs == 2       \* SpecCase: EVENTS_PER_CASE ranges over 1..CasePairs
PoolCases == 6       \* SpecPool: NUM_CASES ranges over PoolCases-1..PoolCases
DispatchPairs == 1   \* SpecDispatch: EVENTS_PER_CASE ranges over 1..DispatchPairs
MaxTotalPairs == 4   \* Spec: NUM_CASES * EVENTS_PER_CASE is at most MaxTotalPairs

(***************************************************************************)
(* Program constants.                                                      *)
(***************************************************************************)
GEN_WORKERS_PER_CASE == NUM_CASES   \* a generation pool as wide as the run
GEN_WORKERS == 4      \* ThreadPoolExecutor(max_workers=4)
POST_WORKERS == 10    \* ThreadPoolExecutor(max_workers=10)
SAMPLE_SIZE == 5      \* all_events[:5]

EVENT_TYPES == <<"document_review", "client_meeting", "case_update", "file_upload", "payment_processing", "status_change", "note_added", "email_sent", "phone_call", "document_signing">>

\* range(start, stop, step), kept as a range
Range(start, stop, step) == <<"range", start, stop, step>>

\* a list of literals
Strs(s) == <<"list", [i \in 1..Len(s) |-> <<"str", s[i]>>]>>

Bools(s) == <<"list", [i \in 1..Len(s) |-> <<"bool", s[i]>>]>>

METADATA_TEMPLATES ==
    [document_review |-> <<
        <<"document_type", Strs(<<"invoice", "contract", "report", "proposal", "agreement">>)>>,
        <<"status", Strs(<<"completed", "pending", "rejected", "approved">>)>>,
        <<"page_count", Range(1, 50, 1)>>,
        <<"reviewer", Strs(<<"John", "Alice", "Bob", "Carol", "David">>)>>,
        <<"priority", Strs(<<"high", "medium", "low">>)>> >>,
     client_meeting |-> <<
        <<"meeting_type", Strs(<<"initial", "follow-up", "review", "closing">>)>>,
        <<"duration_minutes", Range(15, 121, 15)>>,
        <<"location", Strs(<<"office", "virtual", "client_site", "courthouse">>)>>,
        <<"attendees", Range(1, 6, 1)>> >>,
     case_update |-> <<
        <<"update_type", Strs(<<"status", "priority", "assignment", "timeline">>)>>,
        <<"importance", Strs(<<"critical", "high", "medium", "low">>)>>,
        <<"category", Strs(<<"legal", "financial", "administrative", "technical">>)>> >>,
     file_upload |-> <<
        <<"file_type", Strs(<<"pdf", "doc", "xls", "jpg", "zip">>)>>,
        <<"size_kb", Range(100, 10001, 1)>>,
        <<"department", Strs(<<"legal", "finance", "admin", "hr">>)>>,
        <<"classification", Strs(<<"confidential", "internal", "public">>)>> >>,
     payment_processing |-> <<
        <<"amount", Range(100, 10001, 1)>>,
        <<"currency", Strs(<<"USD", "EUR", "GBP">>)>>,
        <<"payment_method", Strs(<<"credit_card", "wire_transfer", "check">>)>>,
        <<"status", Strs(<<"processed", "pending", "failed">>)>> >>,
     status_change |-> <<
        <<"old_status", Strs(<<"new", "in_progress", "review", "pending">>)>>,
        <<"new_status", Strs(<<"in_progress", "review", "pending", "completed">>)>>,
        <<"reason", Strs(<<"client_request", "internal_review", "deadline_update", "resource_allocation">>)>> >>,
     note_added |-> <<
        <<"note_type", Strs(<<"general", "important", "follow-up", "reminder">>)>>,
        <<"category", Strs(<<"client", "internal", "legal", "financial">>)>>,
        <<"visibility", Strs(<<"public", "private", "team">>)>>,
        <<"priority", Strs(<<"high", "medium", "low">>)>> >>,
     email_sent |-> <<
        <<"recipient_count", Range(1, 6, 1)>>,
        <<"email_type", Strs(<<"notification", "update", "request", "reminder">>)>>,
        <<"priority", Strs(<<"high", "normal", "low">>)>>,
        <<"has_attachments", Bools(<<TRUE, FALSE>>)>> >>,
     phone_call |-> <<
        <<"duration_minutes", Range(1, 61, 1)>>,
        <<"call_type", Strs(<<"incoming", "outgoing">>)>>,
        <<"purpose", Strs(<<"follow-up", "initial", "inquiry", "update">>)>>,
        <<"outcome", Strs(<<"successful", "voicemail", "reschedule", "no_answer">>)>> >>,
     document_signing |-> <<
        <<"document_type", Strs(<<"contract", "agreement", "consent", "release">>)>>,
        <<"signing_method", Strs(<<"electronic", "physical">>)>>,
        <<"parties_involved", Range(1, 5, 1)>>,
        <<"urgency", Strs(<<"high", "medium", "low">>)>> >>]

(***************************************************************************)
(* datetime, timedelta and the ISO-8601 text of a datetime.                *)
(***************************************************************************)
MINUTES_PER_DAY == 1440

\* dt + timedelta(minutes=m); timedelta(days=d) is timedelta(minutes=1440*d)
plus_minutes(dt, m) == [dt EXCEPT !.min = @ + m]

\* datetime.isoformat(): "YYYY-MM-DDTHH:MM:SS", and ".ffffff" only when the
\* microsecond is not 0. The text is the sequence of its fields.
isoformat(dt) == IF dt.micro = 0 THEN <<dt.min, dt.sec>> ELSE <<dt.min, dt.sec, dt.micro>>

\* datetime.fromisoformat(): the fraction is optional and defaults to 0
fromisoformat(s) == [min |-> s[1], sec |-> s[2], micro |-> IF Len(s) >= 3 THEN s[3] ELSE 0]

\* dt1 <= dt2
dt_le(a, b) == \/ a.min < b.min
               \/ a.min = b.min /\ a.sec < b.sec
               \/ a.min = b.min /\ a.sec = b.sec /\ a.micro <= b.micro

\* (dt2 - dt1) in minutes, for two datetimes a whole number of minutes apart
minutes_between(a, b) == b.min - a.min

(***************************************************************************)
(* generate_case_id: two letters and six digits, joined.                   *)
(***************************************************************************)
ascii_uppercase == 65..90
digits == 48..57

generate_case_id(prefix, number) == prefix \o number

\* Python's order on str: by code point, a proper prefix first
RECURSIVE str_le(_, _)
str_le(a, b) == IF a = <<>> THEN TRUE
                ELSE IF b = <<>> THEN FALSE
                ELSE IF Head(a) # Head(b) THEN Head(a) < Head(b)
                ELSE str_le(Tail(a), Tail(b))

RECURSIVE sorted(_)
sorted(S) == IF S = {} THEN <<>>
             ELSE LET m == CHOOSE x \in S : \A y \in S : str_le(x, y)
                  IN <<m>> \o sorted(S \ {m})

(***************************************************************************)
(* generate_metadata: one random.choice per key of the category's          *)
(* template, in the template's order.                                      *)
(***************************************************************************)

\* len(range(start, stop, step)) and range(...)[i], for a positive step
range_len(r) == IF r[3] <= r[2] THEN 0 ELSE (r[3] - r[2] + r[4] - 1) \div r[4]

range_at(r, i) == r[2] + i * r[4]

\* list(values) when values is a range: the list is not built, its elements
\* are computed
list_len(values) == IF values[1] = "range" THEN range_len(values) ELSE Len(values[2])

list_at(values, i) == IF values[1] = "range" THEN <<"int", range_at(values, i)>> ELSE values[2][i + 1]

\* random.choice(values): any element; the sample is the first element, and
\* with wide also the last
choice(values, wide) == {list_at(values, i) : i \in IF wide THEN {0, list_len(values) - 1} ELSE {0}}

RECURSIVE metadata_items(_, _)
metadata_items(template, wide) ==
    IF template = <<>> THEN {<<>>}
    ELSE {<< <<Head(template)[1], v>> >> \o rest : v \in choice(Head(template)[2], wide), rest \in metadata_items(Tail(template), wide)}

generate_metadata(event_type, wide) == metadata_items(METADATA_TEMPLATES[event_type], wide)

(***************************************************************************)
(* create_event.                                                           *)
(***************************************************************************)

\* random.randint(a, b)
randint(a, b) == a..b

\* duration_range with the category list of gap_range
duration_range_of_gaps(event_type) ==
    IF event_type \in {"client_meeting", "document_review"}
    THEN randint(120, 240)
    ELSE randint(60, 180)

\* the range the duration of a pair is drawn from
duration_range(event_type) ==
    IF event_type \in {"client_meeting", "document_review", "case_update"}
    THEN randint(120, 240)
    ELSE randint(60, 180)

\* gap_range with the category list of duration_range
gap_range_of_durations(event_name) ==
    IF event_name \in {"client_meeting", "document_review", "case_update"}
    THEN randint(120, 180)
    ELSE randint(60, 120)

\* the range the gap after a pair is drawn from, by the name of the last event
gap_range(event_name) ==
    IF event_name \in {"client_meeting", "document_review"}
    THEN randint(120, 180)
    ELSE randint(60, 120)

start_event(case_id, event_type, event_timestamp, md) ==
    [case_id |-> case_id, event_name |-> event_type, event_type |-> "start", metadata |-> md, timestamp |-> isoformat(event_timestamp)]

end_event(case_id, event_type, event_timestamp, duration_minutes, md) ==
    [case_id |-> case_id, event_name |-> event_type, event_type |-> "end", metadata |-> md, timestamp |-> isoformat(plus_minutes(event_timestamp, duration_minutes))]

\* the pair create_event returns, given its draws
create_event(case_id, event_timestamp, event_type, duration_minutes, md_start, md_end) ==
    <<start_event(case_id, event_type, event_timestamp, md_start), end_event(case_id, event_type, event_timestamp, duration_minutes, md_end)>>

(***************************************************************************)
(* json.dump / json.dumps of a list of events, and the parse of the text.  *)
(* A JSON text is the tree of its tokens; indent=2 only adds white space.  *)
(***************************************************************************)
\* int_digits with the digits in the order the division yields them
RECURSIVE int_digits_reversed(_)
int_digits_reversed(n) == IF n < 10 THEN <<n>> ELSE <<n % 10>> \o int_digits_reversed(n \div 10)

RECURSIVE int_digits(_)
int_digits(n) == IF n < 10 THEN <<n>> ELSE Append(int_digits(n \div 10), n % 10)

json_value(v) ==
    IF v[1] = "str" THEN <<"string", v[2]>>
    ELSE IF v[1] = "bool" THEN (IF v[2] THEN <<"true">> ELSE <<"false">>)
    ELSE <<"number", int_digits(v[2])>>

json_metadata(md) == <<"object", [i \in 1..Len(md) |-> <<md[i][1], json_value(md[i][2])>>]>>

json_event(e) ==
    <<"object", << <<"case_id", <<"string", e.case_id>> >>,
                   <<"event_name", <<"string", e.event_name>> >>,
                   <<"event_type", <<"string", e.event_type>> >>,
                   <<"metadata", json_metadata(e.metadata)>>,
                   <<"timestamp", <<"string", e.timestamp>> >> >> >>

json_dumps(events) == <<"array", [i \in 1..Len(events) |-> json_event(events[i])]>>

\* all_events[:n]
prefix_slice(events, n) == SubSeq(events, 1, IF Len(events) < n THEN Len(events) ELSE n)

RECURSIVE digits_int(_)
digits_int(d) == IF Len(d) = 1 THEN d[1] ELSE 10 * digits_int(SubSeq(d, 1, Len(d) - 1)) + d[Len(d)]

parse_value(tok) ==
    IF tok[1] = "string" THEN <<"str", tok[2]>>
    ELSE IF tok[1] = "true" THEN <<"bool", TRUE>>
    ELSE IF tok[1] = "false" THEN <<"bool", FALSE>>
    ELSE <<"int", digits_int(tok[2])>>

member(obj, key) == LET i == CHOOSE j \in 1..Len(obj[2]) : obj[2][j][1] = key IN obj[2][i][2]

parse_metadata(obj) == [i \in 1..Len(obj[2]) |-> <<obj[2][i][1], parse_value(obj[2][i][2])>>]

parse_event(obj) ==
    [case_id |-> member(obj, "case_id")[2], event_name |-> member(obj, "event_name")[2], event_type |-> member(obj, "event_type")[2], metadata |-> parse_metadata(member(obj, "metadata")), timestamp |-> member(obj, "timestamp")[2]]

json_loads(text) == [i \in 1..Len(text[2]) |-> parse_event(text[2][i])]

(***************************************************************************)
(* ThreadPoolExecutor: the tasks of one map() call are queued in           *)
(* submission order and taken from the queue in that order by at most      *)
(* max_workers threads.                                                    *)
(***************************************************************************)
running(tasks) == {i \in DOMAIN tasks : tasks[i].st = "running"}

queued(tasks) == {i \in DOMAIN tasks : tasks[i].st = "queued"}

all_done(tasks) == \A i \in DOMAIN tasks : tasks[i].st = "done"

\* task i is the head of the queue and a worker is free
can_start(tasks, i, max_workers) ==
    /\ i \in queued(tasks)
    /\ \A j \in queued(tasks) : i <= j
    /\ Cardinality(running(tasks)) < max_workers

(***************************************************************************)
(* The state machine of main.                                              *)
(***************************************************************************)
NoTime == [min |-> 0, sec |-> 0, micro |-> 0]

\* a task of the generation pool that has not started
QueuedCase == [st |-> "queued", case_id |-> <<>>, events |-> <<>>, case_start_time |-> NoTime, event_number |-> 0, draws |-> <<>>]

\* args.output as a condition: None and "" are false
truthy(output) == output[1] = "str" /\ output[2] # ""

\* branch without the --dry-run test
branch_without_dry_run(a) == IF truthy(a.output) THEN "file" ELSE "dispatch"

\* the branch main takes after generation
branch(a) == IF truthy(a.output) THEN "file" ELSE IF a.dry_run THEN "sample" ELSE "dispatch"

\* the results as concurrent.futures.as_completed would yield them
results_as_completed(tasks, order) == [i \in 1..Len(order) |-> tasks[order[i]].events]

\* list(executor.map(generate_case_events, range(NUM_CASES))): the results in
\* the order of the arguments
map_results(tasks, order) == [i \in 1..Cardinality(DOMAIN tasks) |-> tasks[i - 1].events]

\* flatten keeping one list per case id
RECURSIVE flatten_by_case_id(_)
flatten_by_case_id(lists) ==
    IF lists = <<>> THEN <<>>
    ELSE LET rest == flatten_by_case_id(Tail(lists))
         IN IF \E i \in 1..Len(rest) : Head(lists) # <<>> /\ rest[i].case_id = Head(lists)[1].case_id
            THEN rest
            ELSE Head(lists) \o rest

RECURSIVE flatten(_)
flatten(lists) == IF lists = <<>> THEN <<>> ELSE Head(lists) \o flatten(Tail(lists))

\* main starts: the arguments are parsed, the aggregates are empty
InitOver(p) ==
    /\ args \in p.args
    /\ NUM_CASES \in p.cases
    /\ EVENTS_PER_CASE \in p.pairs
    /\ NUM_CASES * EVENTS_PER_CASE <= p.total_pairs
    /\ pc = "start"
    /\ gen = <<>>
    /\ completed = <<>>
    /\ case_events = <<>>
    /\ all_events = <<>>
    /\ case_ids = {}
    /\ log = <<>>
    /\ file = <<>>
    /\ stdout = <<>>
    /\ post = <<>>
    /\ http = <<>>
    /\ results = <<>>

\* executor.map submits every ordinal at once
SubmitCases ==
    /\ pc = "start"
    /\ gen' = [t \in 0..(NUM_CASES - 1) |-> QueuedCase]
    /\ pc' = "generating"
    /\ UNCHANGED <<args, NUM_CASES, EVENTS_PER_CASE, completed, case_events, all_events, case_ids, log, file, stdout, post, http, results>>

\* a worker takes ordinal t: generate_case_events up to its loop
StartCase(t, prefix, number, now, days) ==
    /\ pc = "generating"
    /\ can_start(gen, t, GEN_WORKERS)
    /\ Len(prefix) = 2 /\ \A i \in 1..2 : prefix[i] \in ascii_uppercase
    /\ Len(number) = 6 /\ \A i \in 1..6 : number[i] \in digits
    /\ days \in randint(1, 30)
    /\ gen' = [gen EXCEPT ![t] = [st |-> "running", case_id |-> generate_case_id(prefix, number), events |-> <<>>, case_start_time |-> plus_minutes(now, 0 - MINUTES_PER_DAY * days), event_number |-> 0, draws |-> <<>>]]
    /\ UNCHANGED <<args, NUM_CASES, EVENTS_PER_CASE, pc, completed, case_events, all_events, case_ids, log, file, stdout, post, http, results>>

\* the time the next pair starts at: the end of the last event plus the gap
next_start_time(g, gap_minutes) ==
    IF g.event_number > 0
    THEN plus_minutes(fromisoformat(g.events[Len(g.events)].timestamp), gap_minutes)
    ELSE g.case_start_time

\* one turn of the loop of generate_case_events
GenPair(t, event_type, duration_minutes, gap_minutes, wide) ==
    /\ pc = "generating"
    /\ t \in DOMAIN gen
    /\ gen[t].st = "running"
    /\ gen[t].event_number < EVENTS_PER_CASE
    /\ IF gen[t].event_number > 0
       THEN gap_minutes \in gap_range(gen[t].events[Len(gen[t].events)].event_name)
       ELSE gap_minutes = 0
    /\ duration_minutes \in duration_range(event_type)
    /\ \E md_start, md_end \in generate_metadata(event_type, wide) :
       LET g == gen[t]
           at == next_start_time(g, gap_minutes)
       IN gen' = [gen EXCEPT ![t] = [g EXCEPT !.case_start_time = at,
                                              !.events = @ \o create_event(g.case_id, at, event_type, duration_minutes, md_start, md_end),
                                              !.event_number = @ + 1,
                                              !.draws = Append(@, [event_timestamp |-> at, event_type |-> event_type, duration_minutes |-> duration_minutes, gap_minutes |-> gap_minutes])]]
    /\ UNCHANGED <<args, NUM_CASES, EVENTS_PER_CASE, pc, completed, case_events, all_events, case_ids, log, file, stdout, post, http, results>>

\* generate_case_events returns
FinishCase(t) ==
    /\ pc = "generating"
    /\ t \in DOMAIN gen
    /\ gen[t].st = "running"
    /\ gen[t].event_number = EVENTS_PER_CASE
    /\ gen' = [gen EXCEPT ![t].st = "done"]
    /\ completed' = Append(completed, t)
    /\ UNCHANGED <<args, NUM_CASES, EVENTS_PER_CASE, pc, case_events, all_events, case_ids, log, file, stdout, post, http, results>>

\* list(executor.map(...)) has every result; the loop fills the aggregates
Collect ==
    /\ pc = "generating"
    /\ all_done(gen)
    /\ LET lists == map_results(gen, completed)
       IN /\ case_events' = lists
          /\ all_events' = flatten(lists)
          /\ case_ids' = {flatten(lists)[i].case_id : i \in 1..Len(flatten(lists))}
    /\ pc' = "validate"
    /\ UNCHANGED <<args, NUM_CASES, EVENTS_PER_CASE, gen, completed, log, file, stdout, post, http, results>>

\* Validate ending the run when the count differs
ValidateOrAbort ==
    /\ pc = "validate"
    /\ gen' = <<>>
    /\ completed' = <<>>
    /\ pc' = IF Cardinality(case_ids) # NUM_CASES THEN "crashed" ELSE "output"
    /\ UNCHANGED <<args, NUM_CASES, EVENTS_PER_CASE, case_events, all_events, case_ids, log, file, stdout, post, http, results>>

\* the pool is shut down; the count of distinct case ids is checked
Validate ==
    /\ pc = "validate"
    /\ gen' = <<>>
    /\ completed' = <<>>
    /\ log' = IF Cardinality(case_ids) # NUM_CASES
              THEN Append(log, [kind |-> "collision", expected |-> NUM_CASES, got |-> Cardinality(case_ids), ids |-> sorted(case_ids)])
              ELSE log
    /\ pc' = "output"
    /\ UNCHANGED <<args, NUM_CASES, EVENTS_PER_CASE, case_events, all_events, case_ids, file, stdout, post, http, results>>

\* --output: the whole aggregate is written
WriteFile ==
    /\ pc = "output"
    /\ branch(args) = "file"
    /\ file' = <<json_dumps(all_events)>>
    /\ log' = Append(log, [kind |-> "saved", expected |-> Len(all_events), got |-> Len(all_events), ids |-> <<>>])
    /\ pc' = "finish"
    /\ UNCHANGED <<args, NUM_CASES, EVENTS_PER_CASE, gen, completed, case_events, all_events, case_ids, stdout, post, http, results>>

\* --output: open() raises and main ends with the error
OpenFails ==
    /\ pc = "output"
    /\ branch(args) = "file"
    /\ pc' = "crashed"
    /\ UNCHANGED <<args, NUM_CASES, EVENTS_PER_CASE, gen, completed, case_events, all_events, case_ids, log, file, stdout, post, http, results>>

\* --dry-run: the first events are printed
PrintSample ==
    /\ pc = "output"
    /\ branch(args) = "sample"
    /\ stdout' = Append(stdout, json_dumps(prefix_slice(all_events, SAMPLE_SIZE)))
    /\ log' = Append(log, [kind |-> "dry_run", expected |-> Len(all_events), got |-> Len(all_events), ids |-> <<>>])
    /\ pc' = "finish"
    /\ UNCHANGED <<args, NUM_CASES, EVENTS_PER_CASE, gen, completed, case_events, all_events, case_ids, file, post, http, results>>

\* neither: executor.map submits one post_event call per event
SubmitPosts ==
    /\ pc = "output"
    /\ branch(args) = "dispatch"
    /\ post' = [i \in 1..Len(all_events) |-> [st |-> "queued", outcome |-> [kind |-> "none", status |-> 0], result |-> FALSE]]
    /\ http' = [i \in 1..Len(all_events) |-> 0]
    /\ pc' = "dispatching"
    /\ UNCHANGED <<args, NUM_CASES, EVENTS_PER_CASE, gen, completed, case_events, all_events, case_ids, log, file, stdout, results>>

\* a worker takes event i: post_event sends the request
PostStart(i) ==
    /\ pc = "dispatching"
    /\ can_start(post, i, POST_WORKERS)
    /\ post' = [post EXCEPT ![i].st = "running"]
    /\ http' = [http EXCEPT ![i] = @ + 1]
    /\ UNCHANGED <<args, NUM_CASES, EVENTS_PER_CASE, pc, gen, completed, case_events, all_events, case_ids, log, file, stdout, results>>

\* response.raise_for_status() raises HTTPError for a 4xx or 5xx status
raises_for_status(status) == 400 <= status /\ status < 600

\* what post_event returns: False when requests.post or raise_for_status
\* raised a RequestException, True otherwise
post_event_result(outcome) ==
    IF outcome.kind = "exception" THEN FALSE
    ELSE IF raises_for_status(outcome.status) THEN FALSE
    ELSE TRUE

\* post_event trying again after a failure
PostReturnOrRetry(i, outcome) ==
    /\ pc = "dispatching"
    /\ i \in DOMAIN post
    /\ post[i].st = "running"
    /\ post' = IF post_event_result(outcome)
               THEN [post EXCEPT ![i] = [st |-> "done", outcome |-> outcome, result |-> TRUE]]
               ELSE [post EXCEPT ![i].st = "queued"]
    /\ UNCHANGED <<args, NUM_CASES, EVENTS_PER_CASE, pc, gen, completed, case_events, all_events, case_ids, log, file, stdout, http, results>>

\* post_event of event i returns
PostReturn(i, outcome) ==
    /\ pc = "dispatching"
    /\ i \in DOMAIN post
    /\ post[i].st = "running"
    /\ post' = [post EXCEPT ![i] = [st |-> "done", outcome |-> outcome, result |-> post_event_result(outcome)]]
    /\ UNCHANGED <<args, NUM_CASES, EVENTS_PER_CASE, pc, gen, completed, case_events, all_events, case_ids, log, file, stdout, http, results>>

RECURSIVE sum(_)
sum(bools) == IF bools = <<>> THEN 0 ELSE (IF Head(bools) THEN 1 ELSE 0) + sum(Tail(bools))

\* every call has returned: the successes are counted and reported
Tally ==
    /\ pc = "dispatching"
    /\ all_done(post)
    /\ LET r == [i \in 1..Len(post) |-> post[i].result]
           success_count == sum(r)
       IN /\ results' = r
          /\ log' = Append(log, [kind |-> IF success_count = Len(all_events) THEN "posted_all" ELSE "posted_some", expected |-> Len(all_events), got |-> success_count, ids |-> <<>>])
    /\ pc' = "finish"
    /\ UNCHANGED <<args, NUM_CASES, EVENTS_PER_CASE, gen, completed, case_events, all_events, case_ids, file, stdout, post, http>>

\* the run time is logged and main returns
Finish ==
    /\ pc = "finish"
    /\ pc' = "done"
    /\ UNCHANGED <<args, NUM_CASES, EVENTS_PER_CASE, gen, completed, case_events, all_events, case_ids, log, file, stdout, post, http, results>>

(***************************************************************************)
(* The samples the inputs are drawn from, and the specifications.          *)
(***************************************************************************)
None == <<"None">>

Args == [dry_run : BOOLEAN, output : {None, <<"str", "">>, <<"str", "events.json">>}]

Prefixes == {<<65, 66>>, <<90, 81>>}

Numbers == {<<48, 48, 48, 49, 50, 51>>}

Nows == {[min |-> 50000, sec |-> 7, micro |-> 0], [min |-> 50000, sec |-> 7, micro |-> 250000]}

Days == {1, 30}

Minutes == {60, 120, 180, 240}

Response(status) == [kind |-> "response", status |-> status]

RequestException == [kind |-> "exception", status |-> 0]

Outcomes == {Response(101), Response(200), Response(204), Response(304), Response(404), Response(500), RequestException}

Cats == {EVENT_TYPES[i] : i \in DOMAIN EVENT_TYPES}

\* the steps of the generation pool
GenerateOver(p) ==
    \/ SubmitCases
    \/ \E t \in DOMAIN gen, prefix \in p.prefixes, number \in p.numbers, now \in p.nows, days \in p.days : StartCase(t, prefix, number, now, days)
    \/ \E t \in DOMAIN gen, event_type \in p.event_types, duration_minutes \in p.minutes, gap_minutes \in p.minutes \cup {0} : GenPair(t, event_type, duration_minutes, gap_minutes, p.wide_metadata)
    \/ \E t \in DOMAIN gen : FinishCase(t)

\* the steps of main after the generation pool
OutputOver(p) ==
    \/ Collect
    \/ Validate
    \/ WriteFile
    \/ OpenFails
    \/ PrintSample
    \/ SubmitPosts
    \/ \E i \in DOMAIN post : PostStart(i)
    \/ \E i \in DOMAIN post, outcome \in p.outcomes : PostReturn(i, outcome)
    \/ Tally
    \/ Finish

\* whole runs of main: a few cases, colliding or not, in every mode
MainProfile == [args |-> Args, cases |-> 1..MaxCases, pairs |-> 1..MaxPairs, prefixes |-> Prefixes, numbers |-> Numbers, nows |-> {[min |-> 50000, sec |-> 7, micro |-> 0]}, days |-> {1}, event_types |-> {"client_meeting", "phone_call"}, minutes |-> {120}, wide_metadata |-> FALSE, outcomes |-> {Response(200)}, total_pairs |-> MaxTotalPairs]

Init == InitOver(MainProfile)

Next == GenerateOver(MainProfile) \/ OutputOver(MainProfile)

Spec == Init /\ [][Next]_vars

\* generate_case_events on its own: one case, the categories of every
\* duration and gap range, the ends of every range
CaseProfile == [args |-> {[dry_run |-> FALSE, output |-> None]}, cases |-> {1}, pairs |-> 1..CasePairs, prefixes |-> {<<65, 66>>}, numbers |-> Numbers, nows |-> Nows, days |-> {30}, event_types |-> {"client_meeting", "document_review", "case_update", "file_upload", "email_sent", "document_signing"}, minutes |-> Minutes, wide_metadata |-> FALSE, outcomes |-> {Response(200)}, total_pairs |-> CasePairs]

InitCase == InitOver(CaseProfile)

NextCase == GenerateOver(CaseProfile)

SpecCase == InitCase /\ [][NextCase]_vars

\* runs of main with one pair of events and the ends of every metadata
\* domain: str, bool, and int of one to five digits
FileProfile == [args |-> Args, cases |-> {1}, pairs |-> {1}, prefixes |-> {<<65, 66>>}, numbers |-> Numbers, nows |-> Nows, days |-> {1}, event_types |-> {"email_sent", "file_upload"}, minutes |-> {120}, wide_metadata |-> TRUE, outcomes |-> {Response(200)}, total_pairs |-> 1]

InitFile == InitOver(FileProfile)

NextFile == GenerateOver(FileProfile) \/ OutputOver(FileProfile)

SpecFile == InitFile /\ [][NextFile]_vars

\* runs of main with more cases than generation workers and more events
\* than dispatch workers
PoolProfile == [args |-> {[dry_run |-> FALSE, output |-> None], [dry_run |-> TRUE, output |-> None], [dry_run |-> FALSE, output |-> <<"str", "events.json">>]}, cases |-> (PoolCases - 1)..PoolCases, pairs |-> {1}, prefixes |-> {<<65, 66>>}, numbers |-> Numbers, nows |-> {[min |-> 50000, sec |-> 7, micro |-> 0]}, days |-> {1}, event_types |-> {"phone_call"}, minutes |-> {120}, wide_metadata |-> FALSE, outcomes |-> {Response(200)}, total_pairs |-> PoolCases]

InitPool == InitOver(PoolProfile)

NextPool == GenerateOver(PoolProfile) \/ OutputOver(PoolProfile)

SpecPool == InitPool /\ [][NextPool]_vars

\* runs of main with one case and every outcome of a POST
DispatchProfile == [args |-> Args, cases |-> {1}, pairs |-> 1..DispatchPairs, prefixes |-> {<<65, 66>>}, numbers |-> Numbers, nows |-> {[min |-> 50000, sec |-> 7, micro |-> 0]}, days |-> {1}, event_types |-> {"phone_call"}, minutes |-> {120}, wide_metadata |-> FALSE, outcomes |-> Outcomes, total_pairs |-> DispatchPairs]

InitDispatch == InitOver(DispatchProfile)

NextDispatch == GenerateOver(DispatchProfile) \/ OutputOver(DispatchProfile)

SpecDispatch == InitDispatch /\ [][NextDispatch]_vars

(***************************************************************************)
(* The claims.                                                             *)
(***************************************************************************)
Is2xx(outcome) == outcome.kind = "response" /\ 200 <= outcome.status /\ outcome.status < 300

AfterOutput == pc \in {"finish", "done"}

NoPost == \A i \in DOMAIN http : http[i] = 0

\* the events of pair i (from 1) of a list of events
StartOf(events, i) == events[2 * i - 1]

EndOf(events, i) == events[2 * i]

NPairs(events) == Len(events) \div 2

LongGapCategories == {"client_meeting", "document_review"}

LongDurationCategories == {"client_meeting", "document_review", "case_update"}

\* C1: post_event returns True exactly for the calls that got a 2xx response
\* and False for every other call (any other status class, or a transport
\* failure); the reported success count is the number of 2xx calls, the total
\* is the number of events, and no exception ends the run.
C1_DispatchTally ==
    /\ \A i \in DOMAIN post : post[i].st = "done" => (post[i].result <=> Is2xx(post[i].outcome))
    /\ (branch(args) = "dispatch" /\ AfterOutput) =>
          /\ Len(results) = Len(all_events)
          /\ log[Len(log)].expected = Len(all_events)
          /\ log[Len(log)].got = Cardinality({i \in DOMAIN post : Is2xx(post[i].outcome)})
    /\ branch(args) = "dispatch" => pc # "crashed"

\* C2 (as stated): once every task has finished, the aggregate holds the cases
\* in the order in which the tasks finished.
C2_CompletionOrder ==
    pc = "validate" => all_events = flatten([i \in 1..Len(completed) |-> gen[completed[i]].events])

\* C2 (amended): once every task has finished, the aggregate holds the cases
\* in the order of their ordinals 0..NUM_CASES-1, whatever the order in which
\* the tasks finished, and within each case the events in pair order: the
\* start and the end of the first pair drawn, then of the second, and so on.
C2_OrdinalOrder ==
    pc = "validate" =>
        \A t \in 0..(NUM_CASES - 1) : \A i \in 1..EVENTS_PER_CASE :
            LET base == 2 * EVENTS_PER_CASE * t
            IN /\ StartOf(all_events, EVENTS_PER_CASE * t + i) = StartOf(gen[t].events, i)
               /\ EndOf(all_events, EVENTS_PER_CASE * t + i) = EndOf(gen[t].events, i)
               /\ all_events[base + 2 * i - 1].timestamp = isoformat(gen[t].draws[i].event_timestamp)
               /\ all_events[base + 2 * i - 1].event_type = "start"
               /\ all_events[base + 2 * i].event_type = "end"

\* the tasks finished in another order than their ordinals, and the two
\* orders give different aggregates
C2_Witness ==
    /\ pc = "validate"
    /\ completed # [i \in 1..NUM_CASES |-> i - 1]
    /\ all_events # flatten([i \in 1..Len(completed) |-> gen[completed[i]].events])

C4_OutputFile ==
    truthy(args.output) =>
        /\ NoPost
        /\ post = <<>>
        /\ file # <<>> =>
              /\ Len(json_loads(file[1])) = Len(all_events)
              /\ \A i \in 1..Len(all_events) :
                    LET e == json_loads(file[1])[i]
                    IN /\ e.case_id = all_events[i].case_id
                       /\ e.event_name = all_events[i].event_name
                       /\ e.event_type = all_events[i].event_type
                       /\ e.metadata = all_events[i].metadata
                       /\ e.timestamp = all_events[i].timestamp
        /\ AfterOutput => file # <<>>

\* a file was written with a str, a five-digit int and a fractional timestamp
C4_Witness ==
    /\ pc = "done"
    /\ truthy(args.output)
    /\ file # <<>>
    /\ all_events[1].event_name = "file_upload"
    /\ all_events[1].metadata[2] = <<"size_kb", <<"int", 10000>> >>
    /\ Len(all_events[1].timestamp) = 3

\* C5: in a run with neither flag, no event is POSTed twice, a failed POST is
\* final, and when the run is past the dispatch every event of the aggregate
\* has been POSTed exactly once, whatever the other POSTs returned.
C5_SingleAttempt ==
    /\ \A i \in DOMAIN http : http[i] <= 1
    /\ \A i \in DOMAIN post : post[i].st = "done" => http[i] = 1
    /\ branch(args) = "dispatch" =>
          /\ pc # "crashed"
          /\ AfterOutput =>
                /\ DOMAIN http = 1..Len(all_events)
                /\ \A i \in 1..Len(all_events) : http[i] = 1
                /\ Len(results) = Len(all_events)

\* the first POST failed and the second event was POSTed all the same
C5_Witness ==
    /\ pc = "done"
    /\ branch(args) = "dispatch"
    /\ Len(results) >= 2
    /\ ~results[1]
    /\ results[2]
    /\ http[1] = 1
    /\ http[2] = 1

\* C6: in every case, built or being built, pair i > 1 starts at the end of
\* pair i-1 plus the gap drawn, which is 120..180 minutes after a
\* client_meeting or a document_review and 60..120 minutes otherwise; so the
\* starts of the pairs increase by at least 60 minutes, and the timestamps
\* of the case's events never decrease.
C6_Chronology ==
    \A t \in DOMAIN gen :
        LET ev == gen[t].events
        IN /\ \A i \in 2..NPairs(ev) :
                 LET prev_end == fromisoformat(EndOf(ev, i - 1).timestamp)
                     prev_start == fromisoformat(StartOf(ev, i - 1).timestamp)
                     this_start == fromisoformat(StartOf(ev, i).timestamp)
                     gap == minutes_between(prev_end, this_start)
                 IN /\ this_start = plus_minutes(prev_end, gen[t].draws[i].gap_minutes)
                    /\ IF StartOf(ev, i - 1).event_name \in LongGapCategories
                       THEN 120 <= gap /\ gap <= 180
                       ELSE 60 <= gap /\ gap <= 120
                    /\ gap >= 60
                    /\ minutes_between(prev_start, this_start) >= 60
                    /\ dt_le(prev_start, this_start) /\ prev_start # this_start
           /\ \A j \in 1..(Len(ev) - 1) : dt_le(fromisoformat(ev[j].timestamp), fromisoformat(ev[j + 1].timestamp))

\* a finished case of two pairs, the first a case_update followed by the
\* longest short gap, with a fractional timestamp
C6_Witness ==
    \E t \in DOMAIN gen :
        /\ gen[t].st = "done"
        /\ NPairs(gen[t].events) = 2
        /\ gen[t].events[1].event_name = "case_update"
        /\ gen[t].draws[2].gap_minutes = 120
        /\ Len(gen[t].events[3].timestamp) = 3

\* C7: for every pair, the start event carries the start time given, the end
\* event is later by exactly the duration drawn, and the duration is in
\* 120..240 minutes for client_meeting, document_review and case_update and
\* in 60..180 minutes for every other category; the end is strictly later
\* than the start.
C7_PairDuration ==
    \A t \in DOMAIN gen :
        LET ev == gen[t].events
        IN \A i \in 1..NPairs(ev) :
              LET s == fromisoformat(StartOf(ev, i).timestamp)
                  e == fromisoformat(EndOf(ev, i).timestamp)
                  d == gen[t].draws[i]
              IN /\ s = d.event_timestamp
                 /\ e = plus_minutes(s, d.duration_minutes)
                 /\ minutes_between(s, e) = d.duration_minutes
                 /\ StartOf(ev, i).event_name = d.event_type
                 /\ IF d.event_type \in LongDurationCategories
                    THEN 120 <= minutes_between(s, e) /\ minutes_between(s, e) <= 240
                    ELSE 60 <= minutes_between(s, e) /\ minutes_between(s, e) <= 180
                 /\ dt_le(s, e) /\ s # e

\* a finished case with a case_update of 240 minutes and then a file_upload
\* of 60 minutes
C7_Witness ==
    \E t \in DOMAIN gen :
        /\ gen[t].st = "done"
        /\ NPairs(gen[t].events) = 2
        /\ gen[t].draws[1].event_type = "case_update"
        /\ gen[t].draws[1].duration_minutes = 240
        /\ gen[t].draws[2].event_type = "file_upload"
        /\ gen[t].draws[2].duration_minutes = 60

\* C8: once the aggregate is built it has exactly 2*N*K events, made of N*K
\* adjacent pairs with one case_id and one event_name and the event_type
\* "start" then "end", whether or not case ids collide; and the events one
\* generate_case_events call produces all carry the case id of the call,
\* 2*K of them when it returns.
C8_AggregateShape ==
    /\ pc \notin {"start", "generating"} =>
          /\ Len(all_events) = 2 * NUM_CASES * EVENTS_PER_CASE
          /\ \A j \in 1..(NUM_CASES * EVENTS_PER_CASE) :
                /\ StartOf(all_events, j).case_id = EndOf(all_events, j).case_id
                /\ StartOf(all_events, j).event_name = EndOf(all_events, j).event_name
                /\ StartOf(all_events, j).event_type = "start"
                /\ EndOf(all_events, j).event_type = "end"
          /\ \A c \in 0..(NUM_CASES - 1) : \A j \in 1..(2 * EVENTS_PER_CASE) :
                all_events[2 * EVENTS_PER_CASE * c + j].case_id = all_events[2 * EVENTS_PER_CASE * c + 1].case_id
    /\ \A t \in DOMAIN gen :
          /\ \A j \in 1..Len(gen[t].events) : gen[t].events[j].case_id = gen[t].case_id
          /\ gen[t].st = "done" => Len(gen[t].events) = 2 * EVENTS_PER_CASE

\* a finished run of two cases of two pairs with the same case id
C8_Witness ==
    /\ pc = "done"
    /\ NUM_CASES = 2
    /\ EVENTS_PER_CASE = 2
    /\ Cardinality(case_ids) = 1
    /\ Len(all_events) = 8

CollisionLogged == \E k \in 1..Len(log) : log[k].kind = "collision"

DistinctCaseIds == {all_events[i].case_id : i \in 1..Len(all_events)}

\* C9: once the count has been checked, the collision warning, with the
\* sorted list of the case ids generated, has been logged exactly when the
\* number of distinct case ids in the aggregate differs from NUM_CASES; the
\* run then goes on to the output step with every event kept, and ends early
\* only if the output file cannot be opened.
C9_Collision ==
    /\ pc \in {"output", "dispatching", "finish", "done", "crashed"} =>
          /\ CollisionLogged <=> Cardinality(DistinctCaseIds) # NUM_CASES
          /\ \A k \in 1..Len(log) : log[k].kind = "collision" =>
                /\ log[k].ids = sorted(DistinctCaseIds)
                /\ log[k].got = Cardinality(DistinctCaseIds)
                /\ log[k].expected = NUM_CASES
          /\ all_events = flatten(case_events)
          /\ Len(all_events) = 2 * NUM_CASES * EVENTS_PER_CASE
    /\ pc \notin {"output", "dispatching", "finish", "done", "crashed"} => ~CollisionLogged
    /\ pc = "crashed" => branch(args) = "file"

\* two cases got the same case id, the warning was logged and the run went
\* on to POST every event
C9_Witness ==
    /\ pc = "done"
    /\ NUM_CASES = 2
    /\ Cardinality(DistinctCaseIds) = 1
    /\ CollisionLogged
    /\ branch(args) = "dispatch"
    /\ \A i \in 1..Len(all_events) : http[i] = 1

\* C10: at most 4 generate_case_events tasks and at most 10 post_event calls
\* run at once, whatever NUM_CASES and the number of events; and a POST is
\* made only after every generate_case_events task has finished.
C10_BoundedPools ==
    /\ Cardinality(running(gen)) <= 4
    /\ Cardinality(running(post)) <= 10
    /\ (running(gen) # {} \/ queued(gen) # {} \/ pc \in {"start", "generating"}) => (post = <<>> /\ NoPost)
    /\ (\E i \in DOMAIN post : post[i].st # "queued") => (pc \in {"dispatching", "finish", "done"} /\ gen = <<>>)

\* ten post_event calls are running and another waits for a worker
C10_Witness ==
    /\ Cardinality(running(post)) = 10
    /\ queued(post) # {}
    /\ NUM_CASES > 4

\* four generation tasks are running and another waits for a worker
C10_GenPoolFull ==
    /\ Cardinality(running(gen)) = 4
    /\ queued(gen) # {}

====
